---- MODULE Spec2Model ----
(***************************************************************************)
(* Model of the CryptoReportBot conversation engine (src/init.py) and of    *)
(* the conflict-recovery tool (src/telegram_conflict_breaker.py).          *)
(*                                                                         *)
(* Python strings are sequences of one-character strings, so that the      *)
(* string operations of the code (str.replace, float(), locale.atof,       *)
(* str.startswith) are computed and not assumed.  The Python value None is *)
(* the distinguished value None below, which is no character sequence.     *)
(* A Python dict is a function whose DOMAIN is the set of its keys.        *)
(***************************************************************************)
EXTENDS Integers, Sequences, FiniteSets, TLC

VARIABLES
    conversations,   \* ConversationHandler._conversations of conv_handler and gmt_conv_handler
    user_data,       \* context.user_data of each user (Application.user_data)
    numeric_locale,  \* the LC_NUMERIC locale set at import time
    last,            \* observation of the last processed update: what was sent and called
    updates,         \* number of updates processed so far
    gateway_calls,   \* the requests made by direct calls of the gateway functions
    breaker          \* the run of telegram_conflict_breaker.py: position, counters, last step

vars == <<conversations, user_data, numeric_locale, last, updates, gateway_calls, breaker>>

----------------------------------------------------------------------------
(* Python values *)

None == <<"<None>">>

Digits == {"0", "1", "2", "3", "4", "5", "6", "7", "8", "9"}

\* str.replace(old, new) for a non-empty old: leftmost non-overlapping occurrences.
\* Occurrences of a single character do not overlap, so the halves of s are
\* replaced apart.
RECURSIVE StrReplace(_, _, _)
StrReplace(s, old, new) ==
    IF Len(s) < Len(old) THEN s
    ELSE IF Len(old) = 1 /\ Len(s) > 1
         THEN StrReplace(SubSeq(s, 1, Len(s) \div 2), old, new)
              \o StrReplace(SubSeq(s, Len(s) \div 2 + 1, Len(s)), old, new)
    ELSE IF SubSeq(s, 1, Len(old)) = old
         THEN new \o StrReplace(SubSeq(s, Len(old) + 1, Len(s)), old, new)
         ELSE <<Head(s)>> \o StrReplace(Tail(s), old, new)

\* str.startswith(prefix)
StartsWith(s, prefix) ==
    Len(s) >= Len(prefix) /\ SubSeq(s, 1, Len(prefix)) = prefix

\* Python truthiness of a str-or-None value, as used by all([...]).
Truthy(v) == v # None /\ v # <<>>

\* A decoded JSON value, by its Python type: None, bool, a number, str, a list
\* of JSON values, or a dict.  The fields of a dict are a function on its keys;
\* the program reads the values of an alert only to format them, and they are
\* written as plain values.
JsonNull == [json |-> "null"]
JsonBool(b) == [json |-> "bool", bool |-> b]
JsonNumber(n) == [json |-> "number", number |-> n]
JsonString(s) == [json |-> "string", string |-> s]
JsonArray(items) == [json |-> "array", items |-> items]
JsonObject(fields) == [json |-> "object", fields |-> fields]

\* `not v` for a decoded JSON value.
Falsy(v) ==
    CASE v.json = "null" -> TRUE
      [] v.json = "bool" -> ~v.bool
      [] v.json = "number" -> v.number = 0
      [] v.json = "string" -> v.string = <<>>
      [] v.json = "array" -> v.items = <<>>
      [] v.json = "object" -> DOMAIN v.fields = {}

\* Whether `for alert in alerts` can read alert[k] for every k of keys: alerts
\* is a list and each element a dict with these keys.  Otherwise the loop
\* raises before it ends: KeyError for a dict without the key, TypeError for an
\* element that is no dict, for the keys or characters a dict or str is
\* iterated by, and for a value that cannot be iterated.
AllSubscriptable(alerts, keys) ==
    /\ alerts.json = "array"
    /\ \A i \in 1..Len(alerts.items) :
          /\ alerts.items[i].json = "object"
          /\ keys \subseteq DOMAIN alerts.items[i].fields

\* The six ASCII characters float() strips from both ends of its argument:
\* chr(9) to chr(13) and the blank.
Whitespace == {" ", "\t", "\n", "", "\f", "\r"}

\* The characters between chr(128) and chr(255) for which str.isspace() holds.
\* float() rewrites every one of them in its argument as a blank before it
\* strips and parses.  (A TLA+ string holds no character beyond chr(255).)
UnicodeSpaces == {"", " "}

TransformSpaces(s) == [i \in 1..Len(s) |-> IF s[i] \in UnicodeSpaces THEN " " ELSE s[i]]

\* The least and the greatest element of a non-empty set of integers.
Least(S) == CHOOSE i \in S : \A j \in S : i <= j
Greatest(S) == CHOOSE i \in S : \A j \in S : i >= j

\* s without its leading (trailing) characters of the set chars.
DropLeading(s, chars) ==
    LET keep == {i \in 1..Len(s) : s[i] \notin chars}
    IN  IF keep = {} THEN <<>> ELSE SubSeq(s, Least(keep), Len(s))

DropTrailing(s, chars) ==
    LET keep == {i \in 1..Len(s) : s[i] \notin chars}
    IN  IF keep = {} THEN <<>> ELSE SubSeq(s, 1, Greatest(keep))

LStrip(s) == DropLeading(s, Whitespace)

RStrip(s) == DropTrailing(s, Whitespace)

\* str.lower() on the letters of 'inf', 'infinity' and 'nan'.
Lower(c) ==
    CASE c = "I" -> "i" [] c = "N" -> "n" [] c = "F" -> "f" [] c = "T" -> "t"
      [] c = "Y" -> "y" [] c = "A" -> "a" [] OTHER -> c

LowerStr(s) == [i \in 1..Len(s) |-> Lower(s[i])]

DigitValue(c) ==
    CASE c = "0" -> 0 [] c = "1" -> 1 [] c = "2" -> 2 [] c = "3" -> 3 [] c = "4" -> 4
      [] c = "5" -> 5 [] c = "6" -> 6 [] c = "7" -> 7 [] c = "8" -> 8 [] c = "9" -> 9

DigitChar(d) ==
    CASE d = 0 -> "0" [] d = 1 -> "1" [] d = 2 -> "2" [] d = 3 -> "3" [] d = 4 -> "4"
      [] d = 5 -> "5" [] d = 6 -> "6" [] d = 7 -> "7" [] d = 8 -> "8" [] d = 9 -> "9"

RECURSIVE DigitsToInt(_)
DigitsToInt(s) ==
    IF s = <<>> THEN 0 ELSE DigitsToInt(SubSeq(s, 1, Len(s) - 1)) * 10 + DigitValue(s[Len(s)])

RECURSIVE IntToDigits(_)
IntToDigits(n) ==
    IF n < 10 THEN <<DigitChar(n)>> ELSE Append(IntToDigits(n \div 10), DigitChar(n % 10))

StripLeadingZeros(s) == DropLeading(s, {"0"})

StripTrailingZeros(s) == DropTrailing(s, {"0"})

NotUnderscore(c) == c # "_"

\* The digits of a digit group
WithoutUnderscores(s) == SelectSeq(s, NotUnderscore)

Zeros(n) == [i \in 1..n |-> "0"]

Max0(n) == IF n > 0 THEN n ELSE 0

----------------------------------------------------------------------------
(* Natural numbers of any size.  A double has a 53-bit mantissa and the exact *)
(* conversions between decimals and doubles need numbers of several hundred  *)
(* digits: such a number is the sequence of its digits in base 10000, the    *)
(* least significant first and the most significant not 0 (zero is << >>).   *)

BigBase == 10000

BigNorm(a) ==
    LET used == {i \in 1..Len(a) : a[i] # 0}
    IN  IF used = {} THEN <<>> ELSE SubSeq(a, 1, Greatest(used))

RECURSIVE BigFromInt(_)
BigFromInt(n) == IF n = 0 THEN <<>> ELSE <<n % BigBase>> \o BigFromInt(n \div BigBase)

\* The number written with the decimal digits s: four of them to a base digit.
BigFromDigits(s) ==
    BigNorm([i \in 1..((Len(s) + 3) \div 4) |->
                DigitsToInt(SubSeq(s, Max0(Len(s) - 4 * i) + 1, Len(s) - 4 * (i - 1)))])

BigLess(a, b) ==
    IF Len(a) # Len(b) THEN Len(a) < Len(b)
    ELSE \E i \in 1..Len(a) : a[i] < b[i] /\ \A j \in (i + 1)..Len(a) : a[j] = b[j]

BigLeq(a, b) == ~BigLess(b, a)

BigIsOdd(a) == a # <<>> /\ a[1] % 2 = 1

\* a with zero digits above it, n digits in all.
BigPad(a, n) == a \o [i \in 1..(n - Len(a)) |-> 0]

\* a + b for two sequences of as many digits, the last of them 0.  A carry
\* enters position i if a position below it produces one and every position
\* between passes it on.
BigAddDigits(a, b) ==
    LET carry(i) == \E j \in 1..(i - 1) :
                        /\ a[j] + b[j] >= BigBase
                        /\ \A k \in (j + 1)..(i - 1) : a[k] + b[k] = BigBase - 1
    IN  BigNorm([i \in 1..Len(a) |-> (a[i] + b[i] + (IF carry(i) THEN 1 ELSE 0)) % BigBase])

BigAdd(a, b) ==
    IF a = <<>> THEN b
    ELSE IF b = <<>> THEN a
    ELSE BigAddDigits(BigPad(a, (IF Len(a) > Len(b) THEN Len(a) ELSE Len(b)) + 1),
                      BigPad(b, (IF Len(a) > Len(b) THEN Len(a) ELSE Len(b)) + 1))

\* a - b for two sequences of as many digits, a >= b.  Position i is borrowed
\* from if a position below it is short and every position between has equal
\* digits.
BigSubDigits(a, b) ==
    LET borrow(i) == \E j \in 1..(i - 1) :
                         /\ a[j] < b[j]
                         /\ \A k \in (j + 1)..(i - 1) : a[k] = b[k]
    IN  BigNorm([i \in 1..Len(a) |->
                    (a[i] - b[i] - (IF borrow(i) THEN 1 ELSE 0) + BigBase) % BigBase])

BigSub(a, b) == IF b = <<>> THEN a ELSE BigSubDigits(a, BigPad(b, Len(a)))

BigShift(a, n) == IF a = <<>> THEN <<>> ELSE [i \in 1..n |-> 0] \o a

\* a * s for 0 <= s <= BigBase: the low parts of the products of the digits
\* plus their high parts one position up.
BigMulSmall(a, s) ==
    IF a = <<>> \/ s = 0 THEN <<>>
    ELSE BigAddDigits([i \in 1..Len(a) |-> (a[i] * s) % BigBase] \o <<0>>,
                      <<0>> \o [i \in 1..Len(a) |-> (a[i] * s) \div BigBase])

\* a * b, by halves of b.
RECURSIVE BigMul(_, _)
BigMul(a, b) ==
    IF b = <<>> THEN <<>>
    ELSE IF Len(b) = 1 THEN BigMulSmall(a, b[1])
    ELSE BigAdd(BigMul(a, SubSeq(b, 1, Len(b) \div 2)),
                BigShift(BigMul(a, SubSeq(b, Len(b) \div 2 + 1, Len(b))), Len(b) \div 2))

BigSquare(a) == BigMul(a, a)

\* s^n for 0 < s <= BigBase
RECURSIVE BigPow(_, _)
BigPow(s, n) ==
    IF n = 0 THEN <<1>>
    ELSE IF n % 2 = 0 THEN BigSquare(BigPow(s, n \div 2))
    ELSE BigMulSmall(BigSquare(BigPow(s, n \div 2)), s)

\* The largest d in lo..hi with a * d <= r, where a * lo <= r.
RECURSIVE BigMaxDigit(_, _, _, _)
BigMaxDigit(a, r, lo, hi) ==
    IF lo = hi THEN lo
    ELSE IF BigLeq(BigMulSmall(a, (lo + hi + 1) \div 2), r)
         THEN BigMaxDigit(a, r, (lo + hi + 1) \div 2, hi)
         ELSE BigMaxDigit(a, r, lo, (lo + hi + 1) \div 2 - 1)

\* Long division of b by a # 0, from the digit b[i] down: quo is the quotient
\* of the digits above i and rem their remainder, which is below a.
RECURSIVE BigDivStep(_, _, _, _, _)
RECURSIVE BigDivDigit(_, _, _, _, _, _)
BigDivStep(b, i, a, quo, rem) ==
    IF i = 0 THEN [quo |-> BigNorm(quo), rem |-> rem]
    ELSE IF BigLess(BigNorm(<<b[i]>> \o rem), a)
         THEN BigDivStep(b, i - 1, a, <<0>> \o quo, BigNorm(<<b[i]>> \o rem))
         ELSE BigDivDigit(b, i, a, quo, BigNorm(<<b[i]>> \o rem),
                          BigMaxDigit(a, BigNorm(<<b[i]>> \o rem), 1, BigBase - 1))

BigDivDigit(b, i, a, quo, cur, d) ==
    BigDivStep(b, i - 1, a, <<d>> \o quo, BigSub(cur, BigMulSmall(a, d)))

\* divmod(b, a): the digits of b above those that a has less one are below a
\* and start as the remainder.
BigDivMod(b, a) ==
    IF Len(b) < Len(a) THEN [quo |-> <<>>, rem |-> b]
    ELSE BigDivStep(b, Len(b) - Len(a) + 1, a, <<>>,
                    SubSeq(b, Len(b) - Len(a) + 2, Len(b)))

\* divmod(b, a) for b < 10 * a, the quotient a number below 10.
BigDivModBy(b, a, d) == [quo |-> d, rem |-> BigSub(b, BigMulSmall(a, d))]

BigDivModDigit(b, a) == BigDivModBy(b, a, BigMaxDigit(a, b, 0, 9))

----------------------------------------------------------------------------
(* float and its repr.  A float is held as the string float.__repr__ gives   *)
(* for it ('45.5', '1e+16', '5e-324', '-0.0', 'inf', 'nan'): one string for   *)
(* each double, and the text json.dumps writes for a finite price.           *)

PosInf == <<"i", "n", "f">>
NegInf == <<"-", "i", "n", "f">>
NaN == <<"n", "a", "n">>
ZeroRepr == <<"0", ".", "0">>

\* A double is f * 2^q with 0 <= f < 2^53 and q >= -1074; the largest is
\* (2^53 - 1) * 2^971.
MantissaBits == 53
MinBinaryExp == 0 - 1074
MaxBinaryExp == 971

\* repr of the float with the significant digits `digits` and the decimal point
\* after the first k of them (0.d1d2... * 10^k): positional for -4 < k <= 16,
\* else with an exponent of at least two digits.
ReprMinPoint == 0 - 4
ReprMaxPoint == 16

FormatRepr(digits, k) ==
    LET n == Len(digits)
        x == k - 1
        xs == IntToDigits(IF x < 0 THEN 0 - x ELSE x)
    IN  IF ReprMinPoint < k /\ k <= ReprMaxPoint
        THEN IF k <= 0 THEN <<"0", ".">> \o Zeros(0 - k) \o digits
             ELSE IF k >= n THEN digits \o Zeros(k - n) \o <<".", "0">>
             ELSE SubSeq(digits, 1, k) \o <<".">> \o SubSeq(digits, k + 1, n)
        ELSE <<digits[1]>> \o (IF n > 1 THEN <<".">> \o SubSeq(digits, 2, n) ELSE <<>>)
             \o <<"e", IF x < 0 THEN "-" ELSE "+">>
             \o (IF Len(xs) < 2 THEN <<"0">> ELSE <<>>) \o xs

\* A lower bound of floor(log2(v)) for 10^p <= v (log2(10) = 3.32192...).
Log2LowerBound(p) ==
    IF p >= 0 THEN (p * 33219) \div 10000 ELSE 0 - (((0 - p) * 33220 + 9999) \div 10000)

\* The decimal n * 10^x over 2^q as a fraction of natural numbers.
Numerator(n, x, q) == BigMul(BigMul(BigPow(5, Max0(x)), BigPow(2, Max0(x - q))), n)

Denominator(x, q) == BigMul(BigPow(5, Max0(0 - x)), BigPow(2, Max0(q - x)))

\* The double nearest to n * 10^x (ties to the even mantissa) as [f, q], for a
\* q that is not above the exponent of that double: the mantissa is the quotient
\* rounded by the remainder; a quotient of more than 53 bits needs a larger q.
RECURSIVE NearestDouble(_, _, _)
RECURSIVE NearestDoubleRound(_, _, _, _, _)
NearestDouble(n, x, q) ==
    NearestDoubleRound(BigDivMod(Numerator(n, x, q), Denominator(x, q)),
                       Denominator(x, q), n, x, q)

NearestDoubleRound(qr, den, n, x, q) ==
    IF BigLeq(BigPow(2, MantissaBits), qr.quo) THEN NearestDouble(n, x, q + 1)
    ELSE IF \/ BigLess(den, BigAdd(qr.rem, qr.rem))
            \/ BigAdd(qr.rem, qr.rem) = den /\ BigIsOdd(qr.quo)
         THEN IF BigAdd(qr.quo, <<1>>) = BigPow(2, MantissaBits)
              THEN [f |-> BigPow(2, MantissaBits - 1), q |-> q + 1]
              ELSE [f |-> BigAdd(qr.quo, <<1>>), q |-> q]
         ELSE [f |-> qr.quo, q |-> q]

\* The last digit when both d and d + 1 read back as the double: the nearer of
\* the two, twice the remainder against s, and the even one of them on a tie.
RoundedDigit(d, twice, s) ==
    IF BigLess(s, twice) \/ (twice = s /\ d % 2 = 1) THEN d + 1 ELSE d

\* The shortest digits that read back as the double f * 2^q, and of these the
\* nearest to it (free-format digit generation): r / s is what remains of the
\* double, mp / s and mm / s are half the distance to the next double above and
\* below; a decimal on the bound reads back as the double if f is even.
\* When d + 1 is exactly on the upper bound and d within the lower, d is kept.
RECURSIVE Generate(_, _, _, _, _, _)
RECURSIVE GenerateStep(_, _, _, _, _, _)
Generate(r, s, mp, mm, even, acc) ==
    GenerateStep(BigDivModDigit(BigMulSmall(r, 10), s), s,
                 BigMulSmall(mp, 10), BigMulSmall(mm, 10), even, acc)

GenerateStep(qr, s, mp, mm, even, acc) ==
    LET d == qr.quo
        low == IF even THEN BigLeq(qr.rem, mm) ELSE BigLess(qr.rem, mm)
        high == IF even THEN BigLeq(s, BigAdd(qr.rem, mp)) ELSE BigLess(s, BigAdd(qr.rem, mp))
    IN  IF ~low /\ ~high THEN Generate(qr.rem, s, mp, mm, even, Append(acc, DigitChar(d)))
        ELSE IF low /\ ~high THEN Append(acc, DigitChar(d))
        ELSE IF high /\ ~low THEN Append(acc, DigitChar(d + 1))
        ELSE IF even /\ BigAdd(qr.rem, mp) = s THEN Append(acc, DigitChar(d))
        ELSE Append(acc, DigitChar(RoundedDigit(d, BigAdd(qr.rem, qr.rem), s)))

\* The position k of the decimal point: the least k with (r + mp) / s <= 10^k
\* (< 10^k if the bound itself reads back as the double), found from an estimate.
RECURSIVE FixUp(_, _, _, _, _, _)
FixUp(r, s, mp, mm, k, even) ==
    IF (IF even THEN BigLeq(s, BigAdd(r, mp)) ELSE BigLess(s, BigAdd(r, mp)))
    THEN FixUp(r, BigMulSmall(s, 10), mp, mm, k + 1, even)
    ELSE IF (IF even THEN BigLess(BigMulSmall(BigAdd(r, mp), 10), s)
                     ELSE BigLeq(BigMulSmall(BigAdd(r, mp), 10), s))
    THEN FixUp(BigMulSmall(r, 10), s, BigMulSmall(mp, 10), BigMulSmall(mm, 10), k - 1, even)
    ELSE FormatRepr(Generate(r, s, mp, mm, even, <<>>), k)

\* float.__repr__ of the positive double f * 2^q, with k an estimate of the
\* position of its decimal point.  The next double below is half as far as the
\* next above when f is the least mantissa of its exponent.
ReprOfDouble(f, q, k) ==
    LET narrow == IF f = BigPow(2, MantissaBits - 1) /\ q > MinBinaryExp THEN 1 ELSE 0
        ten == BigPow(10, IF k < 0 THEN 0 - k ELSE k)
        r == BigMul(BigPow(2, Max0(q) + 1 + narrow), f)
        s == BigPow(2, Max0(0 - q) + 1 + narrow)
        mp == BigPow(2, Max0(q) + narrow)
        mm == BigPow(2, Max0(q))
    IN  IF k >= 0 THEN FixUp(r, BigMul(s, ten), mp, mm, k, ~BigIsOdd(f))
        ELSE FixUp(BigMul(r, ten), s, BigMul(mp, ten), BigMul(mm, ten), k, ~BigIsOdd(f))

\* repr of the double [f, q] a positive decimal was rounded to: 0.0 if it is
\* nearer to 0 than to the least double, inf if it is beyond the largest.
ReprOfRounded(dbl, k) ==
    IF dbl.f = <<>> THEN ZeroRepr
    ELSE IF dbl.q > MaxBinaryExp THEN PosInf
    ELSE ReprOfDouble(dbl.f, dbl.q, k)

\* The decimals of at most 15 significant digits between 10^-307 and 10^308 are
\* their own shortest digits (DBL_DIG is 15); the decimals from 10^309 on are
\* beyond the largest double and those below 10^-324 nearer to 0 than to the
\* least double, 2^-1074.
ExactDigits == 15
MinExactExp == 0 - 307
MaxExactExp == 307
MinDecimalExp == 0 - 324
MaxDecimalExp == 308

\* repr of the float of the decimal sig * 10^x, sig its digits without leading
\* or trailing zero (none for 0).
RoundedFloat(sig, x, negative) ==
    LET p == Len(sig) - 1 + x
        sign == IF negative THEN <<"-">> ELSE <<>>
    IN  IF sig = <<>> \/ p < MinDecimalExp THEN sign \o ZeroRepr
        ELSE IF p > MaxDecimalExp THEN sign \o PosInf
        ELSE IF Len(sig) <= ExactDigits /\ MinExactExp <= p /\ p <= MaxExactExp
             THEN sign \o FormatRepr(sig, p + 1)
        ELSE sign \o ReprOfRounded(
                 NearestDouble(BigFromDigits(sig), x,
                               IF Log2LowerBound(p) - (MantissaBits - 1) < MinBinaryExp
                               THEN MinBinaryExp
                               ELSE Log2LowerBound(p) - (MantissaBits - 1)),
                 p + 1)

\* A run of digits in which single underscores may separate digits ('1_000').
DigitGroup(s) ==
    /\ s # <<>>
    /\ \A i \in 1..Len(s) : s[i] \in Digits \cup {"_"}
    /\ s[1] \in Digits /\ s[Len(s)] \in Digits
    /\ \A i \in 1..(Len(s) - 1) : ~(s[i] = "_" /\ s[i + 1] = "_")

\* The exponent after 'e': an optional sign and a digit group.  An exponent of
\* more than eight digits is beyond every double and is capped.
MaxExponentDigits == 8
ExponentCap == 99999999

ExponentValue(x) ==
    LET signed == x # <<>> /\ Head(x) \in {"+", "-"}
        body == IF signed THEN Tail(x) ELSE x
        digits == StripLeadingZeros(WithoutUnderscores(body))
        mag == IF Len(digits) > MaxExponentDigits THEN ExponentCap ELSE DigitsToInt(digits)
    IN  IF DigitGroup(body)
        THEN [ok |-> TRUE, value |-> IF signed /\ Head(x) = "-" THEN 0 - mag ELSE mag]
        ELSE [ok |-> FALSE, value |-> 0]

\* The unsigned literal u as the float it denotes: digit groups around at most
\* one '.', at least one of them present, then an optional exponent ('1e3',
\* '1.', '.5', '1_000.5E-2'); [ok |-> FALSE] (ValueError) for anything else.
UnsignedFloat(u, negative) ==
    LET es == {i \in 1..Len(u) : u[i] \in {"e", "E"}}
        epos == IF es = {} THEN Len(u) + 1 ELSE CHOOSE i \in es : \A j \in es : i <= j
        mant == SubSeq(u, 1, epos - 1)
        exp == IF es = {} THEN [ok |-> TRUE, value |-> 0]
               ELSE ExponentValue(SubSeq(u, epos + 1, Len(u)))
        dots == {i \in 1..Len(mant) : mant[i] = "."}
        dot == IF dots = {} THEN Len(mant) + 1 ELSE CHOOSE i \in dots : TRUE
        ipart == SubSeq(mant, 1, dot - 1)
        fpart == SubSeq(mant, dot + 1, Len(mant))
        wellformed == /\ Cardinality(dots) <= 1
                      /\ ipart = <<>> \/ DigitGroup(ipart)
                      /\ fpart = <<>> \/ DigitGroup(fpart)
                      /\ ipart # <<>> \/ fpart # <<>>
                      /\ exp.ok
        idigits == WithoutUnderscores(ipart)
        fdigits == WithoutUnderscores(fpart)
        all == StripLeadingZeros(idigits \o fdigits)
        sig == StripTrailingZeros(all)
    IN  IF wellformed
        THEN [ok |-> TRUE,
              value |-> RoundedFloat(sig, exp.value + (Len(all) - Len(sig)) - Len(fdigits), negative)]
        ELSE [ok |-> FALSE, value |-> None]

\* float of a string without surrounding whitespace: an optional sign, then
\* 'inf', 'infinity' or 'nan' in any case, or the literal.
StrippedFloat(t) ==
    LET signed == t # <<>> /\ Head(t) \in {"+", "-"}
        negative == signed /\ Head(t) = "-"
        u == IF signed THEN Tail(t) ELSE t
        word == LowerStr(u)
    IN  IF word \in {<<"i", "n", "f">>, <<"i", "n", "f", "i", "n", "i", "t", "y">>}
        THEN [ok |-> TRUE, value |-> IF negative THEN NegInf ELSE PosInf]
        ELSE IF word = <<"n", "a", "n">> THEN [ok |-> TRUE, value |-> NaN]
        ELSE UnsignedFloat(u, negative)

\* float(s) of a str of characters up to chr(255): the Unicode spaces become
\* blanks, surrounding whitespace is stripped, then the grammar of
\* StrippedFloat.  [ok |-> FALSE] is ValueError.
PyFloat(s) == StrippedFloat(RStrip(LStrip(TransformSpaces(s))))

\* locale.localeconv() of the two locales init.py can end up with.
LocaleConv(loc) ==
    IF loc = "en_US.UTF-8"
    THEN [thousands_sep |-> <<",">>, decimal_point |-> <<".">>]
    ELSE [thousands_sep |-> <<>>, decimal_point |-> <<".">>]

\* locale.delocalize(string)
Delocalize(string, loc) ==
    LET conv == LocaleConv(loc)
        ts == conv.thousands_sep
        s1 == IF ts # <<>> THEN StrReplace(string, ts, <<>>) ELSE string
        dd == conv.decimal_point
    IN  IF dd # <<>> THEN StrReplace(s1, dd, <<".">>) ELSE s1

\* locale.atof(string)
Atof(string, loc) == PyFloat(Delocalize(string, loc))

\* The fallback parse of summary: float(price.replace(",", "."))
FallbackFloat(price) == PyFloat(StrReplace(price, <<",">>, <<".">>))

\* summary, lines 185-194: locale parse first, then the fallback.
FirstOk(first, second) == IF first.ok THEN first ELSE second

\* PriceFloat with the inner except clause setting a price of 0 instead of
\* replying and returning: no price string is rejected.
PriceFloat_DefaultsToZero(price, loc) ==
    FirstOk(Atof(price, loc),
            FirstOk(FallbackFloat(price), [ok |-> TRUE, value |-> ZeroRepr]))

PriceFloat(price, loc) == FirstOk(Atof(price, loc), FallbackFloat(price))

----------------------------------------------------------------------------
(* The strings of the program *)

CRYPTO_DESCRIPTION == 0
SUMMARY == 1
CRYPTO_SYMBOL == 2
CRYPTO_OPERATOR == 3
\* ConversationHandler.END, returned by summary and cancel
END == 0 - 1

GT_ESCAPED == <<"&", "g", "t", ";">>
LT_ESCAPED == <<"&", "l", "t", ";">>
GE_ESCAPED == <<"&", "g", "t", ";", "=">>
LE_ESCAPED == <<"&", "l", "t", ";", "=">>

GREATER == <<"g", "r", "e", "a", "t", "e", "r">>
LOWER == <<"l", "o", "w", "e", "r">>
GREATER_OR_EQUAL == <<"g", "r", "e", "a", "t", "e", "r", "_", "o", "r", "_", "e", "q", "u", "a", "l">>
LOWER_OR_EQUAL == <<"l", "o", "w", "e", "r", "_", "o", "r", "_", "e", "q", "u", "a", "l">>
OperatorTokens == {GREATER, LOWER, GREATER_OR_EQUAL, LOWER_OR_EQUAL}

RATIO == <<"r", "a", "t", "i", "o">>
SINGLE == <<"s", "i", "n", "g", "l", "e">>
GMT == <<"G", "M", "T">>
GST == <<"G", "S", "T">>
GMT_GST == <<"G", "M", "T", "/", "G", "S", "T">>
DELETE_PREFIX == <<"d", "e", "l", "e", "t", "e", "_">>

CMD_CREATEALERT == <<"c", "r", "e", "a", "t", "e", "a", "l", "e", "r", "t">>
CMD_CREATEGMTALERT == <<"c", "r", "e", "a", "t", "e", "g", "m", "t", "a", "l", "e", "r", "t">>
CMD_CANCEL == <<"c", "a", "n", "c", "e", "l">>
CMD_GETALERTS == <<"g", "e", "t", "a", "l", "e", "r", "t", "s">>
CMD_REMOVEALERT == <<"r", "e", "m", "o", "v", "e", "a", "l", "e", "r", "t">>

\* operator_map of crypto_operator; a token outside the map is a KeyError.
OperatorMap(data) ==
    CASE data = GREATER -> GT_ESCAPED
      [] data = LOWER -> LT_ESCAPED
      [] data = GREATER_OR_EQUAL -> GE_ESCAPED
      [] data = LOWER_OR_EQUAL -> LE_ESCAPED

\* operator.replace("&gt;", ">").replace("&lt;", "<") of summary
Unescape(operator) ==
    StrReplace(StrReplace(operator, GT_ESCAPED, <<">">>), LT_ESCAPED, <<"<">>)

----------------------------------------------------------------------------
(* Handler callbacks.  Each returns what the callback did: the new user_data, *)
(* the returned state, the messages sent to the user, the gateway calls made  *)
(* and whether it raised (an exception leaves the conversation state alone).  *)

\* dict.get(key): None for an absent key
Get(ud, key) == IF key \in DOMAIN ud THEN ud[key] ELSE None

\* dict[key] = value
Put(ud, key, value) ==
    [k \in DOMAIN ud \cup {key} |-> IF k = key THEN value ELSE ud[k]]

Outcome(ud, ret, msgs, calls) ==
    [ud |-> ud, ret |-> ret, msgs |-> msgs, calls |-> calls, raised |-> FALSE]

Raised(ud, msgs, calls) ==
    [ud |-> ud, ret |-> END, msgs |-> msgs, calls |-> calls, raised |-> TRUE]

\* send_alert_request returning True for every answer of the service, whatever
\* its status.
send_alert_request_AnyStatus(data, resp) == resp.kind = "http"

\* send_alert_request: the body is read inside the try before the status is
\* tested, so True iff the body was read and the status is 200; any exception,
\* that of response.text() included, is False.
send_alert_request(data, resp) ==
    IF resp.kind = "http" /\ resp.readable THEN resp.status = 200 ELSE FALSE

\* get_all_alerts without the status check: the body of an error answer is
\* returned as the list.
get_all_alerts_StatusUnchecked(resp) ==
    IF resp.kind = "http" /\ resp.decodable THEN resp.json ELSE JsonArray(<<>>)

\* get_all_alerts: the decoded body on 200, [] on another status or any exception
\* (a body that cannot be read or decoded makes response.json() raise inside the
\* try).
get_all_alerts(resp) ==
    IF resp.kind = "http"
    THEN IF resp.status = 200
         THEN IF resp.decodable THEN resp.json ELSE JsonArray(<<>>)
         ELSE JsonArray(<<>>)
    ELSE JsonArray(<<>>)

\* delete_alert returning True for every answer of the service, whatever its
\* status.
delete_alert_AnyStatus(alert_id, resp) == resp.kind = "http"

\* delete_alert: the body is read inside the try before the status is tested, so
\* True iff the body was read and the status is 200; any exception, that of
\* response.text() included, is False.
delete_alert(alert_id, resp) ==
    IF resp.kind = "http" /\ resp.readable THEN resp.status = 200 ELSE FALSE

\* A request to the remote service as the observation records it: the operation,
\* its argument, what the service answered and what the operation returned.
Call(op, data, resp, result) == [op |-> op, data |-> data, resp |-> resp, result |-> result]

CreateCall(data, resp) ==
    Call("send_alert_request", data, resp, send_alert_request(data, resp))

createalert(update, ud) ==
    IF update.kind # "message" THEN Raised(ud, <<>>, <<>>)
    ELSE Outcome(ud, CRYPTO_SYMBOL, <<"welcome">>, <<>>)

createGmtAlert(update, ud) ==
    IF update.kind # "message" THEN Raised(ud, <<>>, <<>>)
    ELSE LET ud1 == Put(ud, "symbol1", GMT)
             ud2 == Put(ud1, "symbol", GMT_GST)
             ud3 == Put(ud2, "symbol2", GST)
             ud4 == Put(ud3, "type", RATIO)
         IN  Outcome(ud4, CRYPTO_OPERATOR, <<"ratio_selected", "please_choose">>, <<>>)

crypto_symbol(update, ud) ==
    IF update.kind # "message" THEN Raised(ud, <<>>, <<>>)
    ELSE LET ud1 == Put(ud, "symbol", update.text)
             ud2 == Put(ud1, "type", SINGLE)
         IN  Outcome(ud2, CRYPTO_OPERATOR, <<"symbol_selected", "please_choose">>, <<>>)

\* crypto_operator with operator_map.get(query.data, query.data): the data of any
\* button is stored as the operator and the session advances.
crypto_operator_AnyData(update, ud) ==
    LET stored == IF update.data \in OperatorTokens THEN OperatorMap(update.data)
                  ELSE update.data
        ud1 == Put(ud, "operator", stored)
    IN  IF "symbol" \notin DOMAIN ud1 THEN Raised(ud1, <<>>, <<>>)
        ELSE Outcome(ud1, CRYPTO_DESCRIPTION, <<"operator_selected">>, <<>>)

crypto_operator(update, ud) ==
    IF update.data \notin OperatorTokens THEN Raised(ud, <<>>, <<>>)
    ELSE LET ud1 == Put(ud, "operator", OperatorMap(update.data))
         IN  IF "symbol" \notin DOMAIN ud1 THEN Raised(ud1, <<>>, <<>>)
             ELSE Outcome(ud1, CRYPTO_DESCRIPTION, <<"operator_selected">>, <<>>)

crypto_description(update, ud) ==
    IF update.kind # "message" THEN Raised(ud, <<>>, <<>>)
    ELSE Outcome(Put(ud, "price", update.text), SUMMARY, <<"price_noted">>, <<>>)

\* alert_data of the ratio branch, lines 207-214
RatioAlertData(type, symbol1, symbol2, price_float, operator, description) ==
    [type |-> type, symbol1 |-> symbol1, symbol2 |-> symbol2, price |-> price_float,
     operator |-> Unescape(operator), description |-> description]

\* alert_data of the single branch, lines 233-239
SingleAlertData(type, symbol, price_float, operator, description) ==
    [type |-> type, symbol |-> symbol, price |-> price_float,
     operator |-> Unescape(operator), description |-> description]

\* The check of line 218: all([symbol, operator, price, description])
AllRequired(symbol, operator, price, description) ==
    Truthy(symbol) /\ Truthy(operator) /\ Truthy(price) /\ Truthy(description)

\* SendAndConfirm that ends the conversation only on success: after a failed
\* create call the session stays in SUMMARY and the next message retries.
SendAndConfirm_StaysOnFailure(ud, msgs, alert_data, resp) ==
    LET call == CreateCall(alert_data, resp)
    IN  Outcome(ud, IF call.result THEN END ELSE SUMMARY,
                msgs \o (IF call.result THEN <<"alert_created">> ELSE <<"create_failed">>),
                <<call>>)

\* The tail of summary, lines 244-254: the create call and its confirmation.
SendAndConfirm(ud, msgs, alert_data, resp) ==
    LET call == CreateCall(alert_data, resp)
    IN  Outcome(ud, END,
                msgs \o (IF call.result THEN <<"alert_created">> ELSE <<"create_failed">>),
                <<call>>)

\* summary from line 185 on: ud holds the description, parsed is the price parse.
Summarize(ud, parsed, resp) ==
    LET symbol == Get(ud, "symbol")
        symbol1 == Get(ud, "symbol1")
        symbol2 == Get(ud, "symbol2")
        type == Get(ud, "type")
        operator == Get(ud, "operator")
        price == Get(ud, "price")
        description == Get(ud, "description")
        m0 == <<"description_added">>
    IN  IF ~parsed.ok
        THEN Outcome(ud, END, m0 \o <<"invalid_price">>, <<>>)
        ELSE IF type = RATIO
             THEN IF operator = None THEN Raised(ud, m0 \o <<"summary">>, <<>>)
                  ELSE SendAndConfirm(ud, m0 \o <<"summary">>,
                           RatioAlertData(type, symbol1, symbol2, parsed.value,
                                          operator, description),
                           resp)
        ELSE IF ~AllRequired(symbol, operator, price, description)
             THEN Outcome(ud, END, m0 \o <<"missing_information">>, <<>>)
        ELSE SendAndConfirm(ud, m0 \o <<"summary">>,
                 SingleAlertData(type, symbol, parsed.value, operator, description),
                 resp)

\* summary: a price of None makes locale.atof raise an AttributeError, which the
\* except ValueError clauses do not catch.
summary(update, ud, loc, resp) ==
    IF update.kind # "message" THEN Raised(ud, <<>>, <<>>)
    ELSE IF Get(ud, "price") = None
         THEN Raised(Put(ud, "description", update.text), <<"description_added">>, <<>>)
    ELSE Summarize(Put(ud, "description", update.text),
                   PriceFloat(Get(ud, "price"), loc), resp)

cancel(update, ud) ==
    IF update.kind # "message" THEN Raised(ud, <<>>, <<>>)
    ELSE Outcome(ud, END, <<"bye">>, <<>>)

\* The keys of an alert the loop of list_alerts (lines 310-315) reads.
ListedKeys == {"symbol", "price", "operator", "description"}

\* list_alerts: the loop that builds the message raises on an alert without one
\* of the keys it reads, before anything is sent; update.message is None for an
\* update that is no new message, so that either reply raises.
list_alerts(update, ud, resp) ==
    LET alerts == get_all_alerts(resp)
        call == Call("get_all_alerts", None, resp, alerts)
    IN  IF update.kind # "message" THEN Raised(ud, <<>>, <<call>>)
        ELSE IF Falsy(alerts) THEN Outcome(ud, END, <<"no_alerts_or_error">>, <<call>>)
        ELSE IF ~AllSubscriptable(alerts, ListedKeys) THEN Raised(ud, <<>>, <<call>>)
        ELSE Outcome(ud, END, <<"current_alerts">>, <<call>>)

\* The keys of an alert the loop of remove_alert_command (lines 354-360) reads.
ButtonKeys == {"symbol", "operator", "price", "guid"}

remove_alert_command(update, ud, resp) ==
    LET alerts == get_all_alerts(resp)
        call == Call("get_all_alerts", None, resp, alerts)
    IN  IF update.kind # "message" THEN Raised(ud, <<>>, <<call>>)
        ELSE IF Falsy(alerts) THEN Outcome(ud, END, <<"no_alerts_to_remove">>, <<call>>)
        ELSE IF ~AllSubscriptable(alerts, ButtonKeys) THEN Raised(ud, <<>>, <<call>>)
        ELSE Outcome(ud, END, <<"select_alert_to_remove">>, <<call>>)

button_click_handler(update, ud, resp) ==
    IF StartsWith(update.data, DELETE_PREFIX)
    THEN LET alert_id == StrReplace(update.data, DELETE_PREFIX, <<>>)
             call == Call("delete_alert", alert_id, resp, delete_alert(alert_id, resp))
         IN  Outcome(ud, END,
                     IF call.result THEN <<"alert_removed">> ELSE <<"remove_failed">>,
                     <<call>>)
    ELSE Outcome(ud, END, <<>>, <<>>)

----------------------------------------------------------------------------
(* Handlers and their check_update *)

Handler(kind, arg, callback) == [kind |-> kind, arg |-> arg, callback |-> callback]

\* filters.COMMAND: the text starts with a bot command
IsCommandText(text) == text # None /\ text # <<>> /\ Head(text) = "/"

\* The command of a command text: what follows '/' up to a blank or '@'.
RECURSIVE CommandWord(_)
CommandWord(s) ==
    IF s = <<>> \/ Head(s) \in {" ", "@"} THEN <<>> ELSE <<Head(s)>> \o CommandWord(Tail(s))

\* The bot_command entity at the start of a text: <<>> if the text has none.
CommandName(text) == IF IsCommandText(text) THEN CommandWord(Tail(text)) ELSE <<>>

\* Handler.check_update of CommandHandler, MessageHandler and CallbackQueryHandler.
\* Message filters accept a message as well as an edited message.
CheckUpdate(h, update) ==
    CASE h.kind = "CommandHandler" ->
            /\ update.kind \in {"message", "edited_message"}
            /\ update.command = h.arg
      [] h.kind = "MessageHandler" ->
            /\ update.kind \in {"message", "edited_message"}
            /\ \/ h.arg = "ALL"
               \/ /\ h.arg = "TEXT & ~COMMAND"
                  /\ Truthy(update.text)
                  /\ update.command = <<>>
      [] h.kind = "CallbackQueryHandler" -> update.kind = "callback_query"

ConvNames == {"conv_handler", "gmt_conv_handler"}

\* entry_points of the two ConversationHandlers of main
EntryPoints(name) ==
    IF name = "conv_handler"
    THEN <<Handler("CommandHandler", CMD_CREATEALERT, "createalert")>>
    ELSE <<Handler("CommandHandler", CMD_CREATEGMTALERT, "createGmtAlert")>>

\* states of the two ConversationHandlers of main (states.get(state), [] if absent)
StateHandlers(name, state) ==
    CASE state = CRYPTO_SYMBOL /\ name = "conv_handler" ->
            <<Handler("MessageHandler", "TEXT & ~COMMAND", "crypto_symbol")>>
      [] state = CRYPTO_OPERATOR ->
            <<Handler("CallbackQueryHandler", "", "crypto_operator")>>
      [] state = CRYPTO_DESCRIPTION ->
            <<Handler("MessageHandler", "TEXT & ~COMMAND", "crypto_description")>>
      [] state = SUMMARY ->
            <<Handler("MessageHandler", "ALL", "summary")>>
      [] OTHER -> <<>>

\* fallbacks of the two ConversationHandlers of main
Fallbacks(name) == <<Handler("CommandHandler", CMD_CANCEL, "cancel")>>

\* The first handler of hs whose check_update accepts the update, "" if none.
FirstMatch(hs, update) ==
    LET ok == {i \in 1..Len(hs) : CheckUpdate(hs[i], update)}
    IN  IF ok = {} THEN ""
        ELSE hs[CHOOSE i \in ok : \A j \in ok : i <= j].callback

\* ConversationHandler.check_update (allow_reentry False, per_chat and per_user):
\* with no conversation for the key only the entry points are tried; with one, the
\* handlers of its state and then the fallbacks.  "" is None (not handled).
ConvCheckUpdate(name, convs, update) ==
    IF update.user \notin DOMAIN convs[name]
    THEN FirstMatch(EntryPoints(name), update)
    ELSE LET inState == FirstMatch(StateHandlers(name, convs[name][update.user]), update)
         IN  IF inState # "" THEN inState ELSE FirstMatch(Fallbacks(name), update)

\* application.add_handler(...) of main, in order; all in group 0, so the first
\* handler that accepts an update is the only one that handles it.
AppHandlers ==
    << Handler("ConversationHandler", "conv_handler", ""),
       Handler("ConversationHandler", "gmt_conv_handler", ""),
       Handler("CommandHandler", CMD_CREATEALERT, "createalert"),
       Handler("CommandHandler", CMD_GETALERTS, "list_alerts"),
       Handler("CommandHandler", CMD_CREATEGMTALERT, "createGmtAlert"),
       Handler("CommandHandler", CMD_REMOVEALERT, "remove_alert_command"),
       Handler("CallbackQueryHandler", "", "button_click_handler") >>

AppCheck(h, convs, update) ==
    IF h.kind = "ConversationHandler"
    THEN ConvCheckUpdate(h.arg, convs, update) # ""
    ELSE CheckUpdate(h, update)

\* Application.process_update: the index of the handler that takes the update, 0 if none.
Dispatch(convs, update) ==
    LET ok == {i \in 1..Len(AppHandlers) : AppCheck(AppHandlers[i], convs, update)}
    IN  IF ok = {} THEN 0 ELSE CHOOSE i \in ok : \A j \in ok : i <= j

\* The callback invoked with the update.
Invoke(callback, update, ud, loc, resp) ==
    CASE callback = "createalert" -> createalert(update, ud)
      [] callback = "createGmtAlert" -> createGmtAlert(update, ud)
      [] callback = "crypto_symbol" -> crypto_symbol(update, ud)
      [] callback = "crypto_operator" -> crypto_operator(update, ud)
      [] callback = "crypto_description" -> crypto_description(update, ud)
      [] callback = "summary" -> summary(update, ud, loc, resp)
      [] callback = "cancel" -> cancel(update, ud)
      [] callback = "list_alerts" -> list_alerts(update, ud, resp)
      [] callback = "remove_alert_command" -> remove_alert_command(update, ud, resp)
      [] callback = "button_click_handler" -> button_click_handler(update, ud, resp)

\* ConversationHandler._update_state: END removes the key, another state is stored;
\* a callback that raised leaves the conversation as it was.
UpdateState(conv, key, out) ==
    IF out.raised THEN conv
    ELSE IF out.ret = END THEN [k \in DOMAIN conv \ {key} |-> conv[k]]
    ELSE [k \in DOMAIN conv \cup {key} |-> IF k = key THEN out.ret ELSE conv[k]]

----------------------------------------------------------------------------
(* Inputs *)

\* Number of updates a behaviour of the model processes
MaxUpdates == 7

Users == {"u1"}

BTC == <<"B", "T", "C">>
BREAKOUT == <<"b", "r", "e", "a", "k", "o", "u", "t">>
PRICE_SPACE_COMMA == <<"4", "5", " ", "0", "0", "0", ",", "5", "0">>
PRICE_COMMA == <<"4", "5", ",", "5", "0">>

\* Free texts a user types: as a symbol, a price or a description.
Texts == {BTC, BREAKOUT, PRICE_SPACE_COMMA, PRICE_COMMA}

\* Command messages
CommandTexts ==
    {<<"/">> \o c : c \in {CMD_CREATEALERT, CMD_CREATEGMTALERT, CMD_CANCEL,
                           CMD_GETALERTS, CMD_REMOVEALERT}}

GUID1 == <<"g", "1">>
\* The buttons pressed: the four operator buttons of the keyboards of
\* createGmtAlert and crypto_symbol, and the delete button of an alert.
CallbackData ==
    {GREATER, LOWER, GREATER_OR_EQUAL, LOWER_OR_EQUAL, DELETE_PREFIX \o GUID1}

\* Texts of edited messages: a user edits an earlier message into a command.
EditedTexts == {<<"/">> \o CMD_GETALERTS}

ALERT1 ==
    JsonObject([guid |-> GUID1, symbol |-> BTC, price |-> 100,
                operator |-> <<">">>, description |-> BREAKOUT])

\* A stored ratio alert, with the keys of the ratio payload of summary: symbol1
\* and symbol2, no symbol.
RATIO_ALERT ==
    JsonObject([guid |-> GUID1, type |-> RATIO, symbol1 |-> GMT, symbol2 |-> GST,
                price |-> 100, operator |-> <<">">>, description |-> BREAKOUT])

\* An alert the service returns without its guid.
ALERT_WITHOUT_GUID ==
    JsonObject([symbol |-> BTC, price |-> 100, operator |-> <<">">>,
                description |-> BREAKOUT])

BUSY == <<"b", "u", "s", "y">>

\* An alert with no key but one.
ALERT_KEY == JsonObject([json_object |-> BUSY])

\* No answer from the remote service: a transport error or a timeout
NoResponse ==
    [kind |-> "exception", status |-> 0, readable |-> FALSE, decodable |-> FALSE,
     json |-> JsonNull]

\* An answer with a status and a body that is read in full; json is the decoded
\* body if it is decodable.
HttpResponse(status, decodable, json) ==
    [kind |-> "http", status |-> status, readable |-> TRUE, decodable |-> decodable,
     json |-> json]

\* An answer with a status whose body cannot be read (the connection breaks
\* while the body arrives, or its bytes are not text of its charset):
\* response.text() and response.json() raise.
UnreadableResponse(status) ==
    [kind |-> "http", status |-> status, readable |-> FALSE, decodable |-> FALSE,
     json |-> JsonNull]

\* What the remote service can answer to a create or delete request: a status
\* with a body that is read and logged or cannot be read, or no answer at all.
StatusResponses ==
    { HttpResponse(200, TRUE, JsonNull), HttpResponse(500, TRUE, JsonNull),
      UnreadableResponse(200), NoResponse }

\* What it can answer to a list request: a status with a body that decodes as
\* JSON or not, or no answer at all.  A decodable body of status 200 is a list of
\* alerts, of which one may lack a key a handler reads, or another JSON value.
ListResponses ==
    { HttpResponse(200, TRUE, JsonArray(<<ALERT1>>)),
      HttpResponse(200, TRUE, JsonArray(<<>>)),
      HttpResponse(200, TRUE, JsonArray(<<ALERT1, RATIO_ALERT>>)),
      HttpResponse(200, TRUE, JsonArray(<<ALERT_WITHOUT_GUID>>)),
      HttpResponse(200, TRUE, JsonArray(<<ALERT_KEY>>)),
      HttpResponse(200, TRUE, JsonObject([error |-> BUSY])),
      HttpResponse(200, TRUE, JsonObject([k \in {} |-> None])),
      HttpResponse(200, TRUE, JsonNull),
      HttpResponse(200, FALSE, JsonNull), UnreadableResponse(200),
      HttpResponse(500, TRUE, JsonArray(<<>>)), NoResponse }

\* The answers to the list request of list_alerts and remove_alert_command that
\* the conversation engine is run with: one for each way the handlers go on.
HandlerListResponses ==
    { HttpResponse(200, TRUE, JsonArray(<<ALERT1>>)),
      HttpResponse(200, TRUE, JsonArray(<<ALERT_WITHOUT_GUID>>)),
      HttpResponse(200, TRUE, JsonObject([error |-> BUSY])), NoResponse }

\* An update as the transport delivers it: the command is the bot_command entity
\* of the message text.
MessageUpdate(u, text) ==
    [user |-> u, kind |-> "message", text |-> text, command |-> CommandName(text),
     data |-> None]
EditedUpdate(u, text) ==
    [user |-> u, kind |-> "edited_message", text |-> text, command |-> CommandName(text),
     data |-> None]
CallbackUpdate(u, data) ==
    [user |-> u, kind |-> "callback_query", text |-> None, command |-> <<>>,
     data |-> data]

----------------------------------------------------------------------------
(* telegram_conflict_breaker.py.  The tool is a loop of request/response       *)
(* exchanges with the Telegram API; each operator below is the code between    *)
(* two exchanges, applied to the run so far (b) and the answer received.        *)

\* max_attempts=20, the default main calls break_bot_conflicts with
max_attempts == 20

\* The exit status of a process that has not exited
NoExit == 0 - 1

TOKEN == <<"1", ":", "a">>
\* os.getenv('BOT_TOKEN') or the stripped input: a token, or the empty string
Tokens == {TOKEN, <<>>}

\* A request as make_telegram_request sends it, with what it returned: the
\* response, or TgNoResponse for the None it returns on any exception.
make_telegram_request(method, params, resp) ==
    [method |-> method, params |-> params, resp |-> resp]

\* An update of a getUpdates result
TgUpdate(id) == [update_id |-> id]

\* The body {"ok": true, "result": [...]} and a body without "result"
TgResult(result) == [ok |-> TRUE, result |-> result]
TgNoResult == [ok |-> TRUE]

\* No answer from the Telegram API: requests raised and make_telegram_request
\* returned None
TgNoResponse ==
    [kind |-> "exception", status |-> 0, readable |-> FALSE, decodable |-> FALSE,
     json |-> TgNoResult]

\* What the Telegram API can answer to deleteWebhook and getMe
TgStatusResponses ==
    {HttpResponse(200, TRUE, TgResult(<<>>)), HttpResponse(500, TRUE, TgNoResult), TgNoResponse}

\* What it can answer to a poll: 200 with no update, with updates (the highest
\* id first or last), without "result", with a body the code cannot read;
\* 409 while another consumer holds the channel; another status; no answer.
TgPollResponses ==
    { HttpResponse(200, TRUE, TgResult(<<>>)),
      HttpResponse(200, TRUE, TgResult(<<TgUpdate(5), TgUpdate(7)>>)),
      HttpResponse(200, TRUE, TgResult(<<TgUpdate(7), TgUpdate(5)>>)),
      HttpResponse(200, TRUE, TgNoResult),
      HttpResponse(200, FALSE, TgNoResult),
      HttpResponse(409, TRUE, TgNoResult),
      HttpResponse(500, TRUE, TgNoResult),
      TgNoResponse }

\* What it can answer to the acknowledging request (the code ignores it)
TgAckResponses == {HttpResponse(200, TRUE, TgResult(<<>>)), TgNoResponse}

\* The id of the last update received instead of the highest one
MaxUpdateId_LastReceived(us) == us[Len(us)].update_id

\* max(update['update_id'] for update in updates), updates not empty
RECURSIVE MaxUpdateId(_)
MaxUpdateId(us) ==
    IF Len(us) = 1 THEN us[1].update_id
    ELSE LET m == MaxUpdateId(Tail(us))
         IN  IF us[1].update_id > m THEN us[1].update_id ELSE m

\* data.get('result', [])
ResultOf(data) == IF "result" \in DOMAIN data THEN data.result ELSE <<>>

BreakerNotStarted ==
    [pc |-> "not_started", attempt |-> 0, conflicts |-> 0, sleeps |-> 0,
     webhook_ok |-> FALSE, success |-> FALSE, exit_code |-> NoExit, step |-> <<>>]

\* main up to the call of break_bot_conflicts: without a token sys.exit(1);
\* the answer to getMe is only printed.
breaker_main_start(b, token, me_resp) ==
    IF ~Truthy(token)
    THEN [b EXCEPT !.pc = "exited", !.exit_code = 1]
    ELSE [b EXCEPT !.pc = "webhook",
                   !.step = <<make_telegram_request("getMe", None, me_resp)>>]

\* break_bot_conflicts, step 1: deleteWebhook; a failure is printed and the
\* function goes on to step 2.
break_bot_conflicts_webhook(b, resp) ==
    [b EXCEPT !.pc = "poll",
              !.webhook_ok = (resp.kind = "http" /\ resp.status = 200),
              !.step = <<make_telegram_request("deleteWebhook",
                                               [drop_pending_updates |-> TRUE], resp)>>]

\* break_bot_conflicts with a loop that has no attempt budget: an iteration that
\* does not resolve the conflict is always followed by another.
break_bot_conflicts_attempt_NoBudget(b, resp, ack_resp) ==
    LET resolved == resp.kind = "http" /\ resp.status = 200 /\ resp.decodable
        conflict == IF resp.kind = "http" /\ resp.status = 409 THEN 1 ELSE 0
    IN  [b EXCEPT !.attempt = @ + 1,
                  !.conflicts = @ + conflict,
                  !.sleeps = @ + conflict,
                  !.step = <<make_telegram_request("getUpdates",
                                                   [timeout |-> 1, limit |-> 100], resp)>>,
                  !.pc = IF resolved THEN "returned" ELSE "poll",
                  !.success = resolved]

\* break_bot_conflicts, one iteration of the loop of step 2 (and, after the last
\* iteration, the return False that follows the loop).
break_bot_conflicts_attempt(b, resp, ack_resp) ==
    LET attempt == b.attempt + 1
        poll == make_telegram_request("getUpdates", [timeout |-> 1, limit |-> 100], resp)
        next_pc == IF attempt = max_attempts THEN "returned" ELSE "poll"
        unresolved == [b EXCEPT !.attempt = attempt, !.step = <<poll>>, !.pc = next_pc,
                                !.success = FALSE]
    IN  IF resp.kind # "http" THEN unresolved
        ELSE IF resp.status = 200
             THEN IF ~resp.decodable THEN unresolved
                  ELSE LET tg_updates == ResultOf(resp.json)
                           ack == make_telegram_request("getUpdates",
                                      [offset |-> MaxUpdateId(tg_updates) + 1, timeout |-> 1],
                                      ack_resp)
                       IN  [b EXCEPT !.attempt = attempt,
                                     !.step = IF tg_updates # <<>> THEN <<poll, ack>> ELSE <<poll>>,
                                     !.pc = "returned",
                                     !.success = TRUE]
        ELSE IF resp.status = 409
             THEN [unresolved EXCEPT !.conflicts = @ + 1, !.sleeps = @ + 1]
        ELSE unresolved

\* main after break_bot_conflicts returned: the outcome is printed and main
\* returns, so the interpreter exits with status 0.
breaker_main_finish(b) ==
    [b EXCEPT !.pc = "exited", !.exit_code = 0, !.step = <<>>]

----------------------------------------------------------------------------
(* The state machine *)

EmptyDict == [k \in {} |-> None]

\* What `last` keeps of an update: its kind, its command (if it is a command
\* message), whether it carries text, and the data of a button press.
Seen(update) ==
    [kind |-> update.kind,
     command |-> update.command,
     has_text |-> update.text # None,
     data |-> update.data]

Init ==
    /\ conversations = [name \in ConvNames |-> EmptyDict]
    /\ user_data = [u \in Users |-> EmptyDict]
    /\ numeric_locale \in {"en_US.UTF-8", "C"}
    /\ updates = 0
    /\ gateway_calls = <<>>
    /\ breaker = BreakerNotStarted
    /\ last = [update |-> [kind |-> "none", command |-> <<>>, has_text |-> FALSE,
                           data |-> None],
               user |-> "", handler |-> "", callback |-> "", pre |-> conversations,
               msgs |-> <<>>, calls |-> <<>>, raised |-> FALSE,
               selected |-> [name \in ConvNames |-> [u \in Users |-> None]]]

\* What the remote service may answer to the request of a callback; a callback
\* that makes no request is not affected by it.
ResponsesFor(callback) ==
    CASE callback \in {"summary", "button_click_handler"} -> StatusResponses
      [] callback \in {"list_alerts", "remove_alert_command"} -> HandlerListResponses
      [] OTHER -> {NoResponse}

\* The handler of AppHandlers that takes the update and the callback it invokes:
\* for a ConversationHandler the callback its check_update selected.
Selected(i, convs, update) ==
    IF i = 0 THEN [handler |-> "", conv |-> FALSE, callback |-> ""]
    ELSE IF AppHandlers[i].kind = "ConversationHandler"
         THEN [handler |-> AppHandlers[i].arg, conv |-> TRUE,
               callback |-> ConvCheckUpdate(AppHandlers[i].arg, convs, update)]
         ELSE [handler |-> AppHandlers[i].callback, conv |-> FALSE,
               callback |-> AppHandlers[i].callback]

\* The operator token each live session selected, after an update of `user` on
\* which the crypto_operator of conversation `handler` stored `token` (None if
\* it stored none): a session keeps its token until the update after its end.
SelectedAfter(user, handler, token) ==
    [name \in ConvNames |->
        [u \in Users |->
            IF name = handler /\ u = user /\ token # None THEN token
            ELSE IF u \in DOMAIN conversations[name] THEN last.selected[name][u]
            ELSE None]]

\* The effect of the selected callback's outcome on the state.
Apply(update, sel, out) ==
    /\ user_data' = [user_data EXCEPT ![update.user] = out.ud]
    /\ conversations' =
           IF sel.conv
           THEN [conversations EXCEPT
                   ![sel.handler] = UpdateState(conversations[sel.handler],
                                                update.user, out)]
           ELSE conversations
    /\ last' = [update |-> Seen(update), user |-> update.user,
                handler |-> sel.handler, callback |-> sel.callback,
                pre |-> conversations, msgs |-> out.msgs, calls |-> out.calls,
                raised |-> out.raised,
                selected |-> SelectedAfter(update.user, sel.handler,
                                           IF sel.callback = "crypto_operator" /\ ~out.raised
                                           THEN update.data ELSE None)]

Handle(update, sel) ==
    IF sel.callback = ""
    THEN /\ UNCHANGED <<conversations, user_data>>
         /\ last' = [update |-> Seen(update), user |-> update.user,
                     handler |-> "", callback |-> "",
                     pre |-> conversations, msgs |-> <<>>, calls |-> <<>>,
                     raised |-> FALSE,
                     selected |-> SelectedAfter(update.user, "", None)]
    ELSE \E resp \in ResponsesFor(sel.callback) :
            Apply(update, sel,
                  Invoke(sel.callback, update, user_data[update.user],
                         numeric_locale, resp))

\* Application.process_update on one update; the model stops after MaxUpdates.
ProcessUpdate(update) ==
    /\ updates < MaxUpdates
    /\ updates' = updates + 1
    /\ UNCHANGED <<numeric_locale, gateway_calls, breaker>>
    /\ Handle(update, Selected(Dispatch(conversations, update), conversations, update))

\* A text message (free text or a command)
TextMessage ==
    \E u \in Users, text \in Texts \cup CommandTexts :
        ProcessUpdate(MessageUpdate(u, text))

\* A message without text (a photo, a sticker): message.text is None
NonTextMessage ==
    \E u \in Users :
        ProcessUpdate(MessageUpdate(u, None))

\* An edit of an earlier message: update.message is None, update.edited_message is set
EditedMessage ==
    \E u \in Users, text \in EditedTexts :
        ProcessUpdate(EditedUpdate(u, text))

\* A press of an inline button
CallbackQuery ==
    \E u \in Users, data \in CallbackData :
        ProcessUpdate(CallbackUpdate(u, data))

Next == TextMessage \/ NonTextMessage \/ EditedMessage \/ CallbackQuery

Spec == Init /\ [][Next]_vars

----------------------------------------------------------------------------
(* The gateway functions called directly, one after another *)

\* Number of direct calls a behaviour makes
MaxCalls == 3

GUID2 == <<"g", "2">>
AlertIds == {GUID1, GUID2}

\* The answers to a list request, and an error status with a JSON body
GatewayListResponses == ListResponses \cup {HttpResponse(500, TRUE, JsonArray(<<ALERT1>>))}

GetAllAlerts ==
    /\ Len(gateway_calls) < MaxCalls
    /\ \E resp \in GatewayListResponses :
          gateway_calls' =
              Append(gateway_calls, Call("get_all_alerts", None, resp, get_all_alerts(resp)))
    /\ UNCHANGED <<conversations, user_data, numeric_locale, last, updates, breaker>>

DeleteAlert ==
    /\ Len(gateway_calls) < MaxCalls
    /\ \E alert_id \in AlertIds, resp \in StatusResponses :
          gateway_calls' =
              Append(gateway_calls,
                     Call("delete_alert", alert_id, resp, delete_alert(alert_id, resp)))
    /\ UNCHANGED <<conversations, user_data, numeric_locale, last, updates, breaker>>

NextGateway == GetAllAlerts \/ DeleteAlert

SpecGateway == Init /\ [][NextGateway]_vars

----------------------------------------------------------------------------
(* A run of telegram_conflict_breaker.py *)

BreakerStart ==
    /\ breaker.pc = "not_started"
    /\ \E token \in Tokens, me_resp \in TgStatusResponses :
          breaker' = breaker_main_start(breaker, token, me_resp)
    /\ UNCHANGED <<conversations, user_data, numeric_locale, last, updates, gateway_calls>>

DeleteWebhook ==
    /\ breaker.pc = "webhook"
    /\ \E resp \in TgStatusResponses :
          breaker' = break_bot_conflicts_webhook(breaker, resp)
    /\ UNCHANGED <<conversations, user_data, numeric_locale, last, updates, gateway_calls>>

PollAttempt ==
    /\ breaker.pc = "poll"
    /\ \E resp \in TgPollResponses, ack_resp \in TgAckResponses :
          breaker' = break_bot_conflicts_attempt(breaker, resp, ack_resp)
    /\ UNCHANGED <<conversations, user_data, numeric_locale, last, updates, gateway_calls>>

BreakerFinish ==
    /\ breaker.pc = "returned"
    /\ breaker' = breaker_main_finish(breaker)
    /\ UNCHANGED <<conversations, user_data, numeric_locale, last, updates, gateway_calls>>

NextBreaker == BreakerStart \/ DeleteWebhook \/ PollAttempt \/ BreakerFinish

SpecBreaker == Init /\ [][NextBreaker]_vars

----------------------------------------------------------------------------
(* Vocabulary of the properties *)

\* The spec's state names for the states of init.py
AwaitingSymbol == CRYPTO_SYMBOL
AwaitingOperator == CRYPTO_OPERATOR
AwaitingPrice == CRYPTO_DESCRIPTION
AwaitingDescription == SUMMARY

\* The conversation `name` of the user of the last update was live before / is live
\* after that update.
WasLive(name) == last.user \in DOMAIN last.pre[name]
IsLive(name) == last.user \in DOMAIN conversations[name]
Ended(name) == WasLive(name) /\ ~IsLive(name)

\* The draft (user_data) of the user of the last update
Draft == user_data[last.user]

CreateCalls == {i \in 1..Len(last.calls) : last.calls[i].op = "send_alert_request"}

\* The canonical comparison symbols and the symbol the spec gives each token
CanonicalOperators == {<<">">>, <<"<">>, <<">", "=">>, <<"<", "=">>}

Canonical(token) ==
    CASE token = GREATER -> <<">">>
      [] token = LOWER -> <<"<">>
      [] token = GREATER_OR_EQUAL -> <<">", "=">>
      [] token = LOWER_OR_EQUAL -> <<"<", "=">>

\* The last update was the command message /command (a new message, not an edit)
CommandReceived(command) ==
    last.update.kind = "message" /\ last.update.command = command

\* summary ran on the last update up to the price parse
SummaryParsedPrice ==
    last.callback = "summary" /\ last.msgs # <<>> /\ last.msgs[1] = "description_added"

\* The raw price of the draft is rejected by the locale parse and by the fallback
PriceRejected ==
    /\ ~Atof(Get(Draft, "price"), numeric_locale).ok
    /\ ~FallbackFloat(Get(Draft, "price")).ok

----------------------------------------------------------------------------
(* C1..C10 *)

\* C1: a /cancel message received while a session of the user is in a non-terminal
\* state ends a session of that user and makes no create call.
C1_CancelEndsSessionWithoutCreate ==
    (CommandReceived(CMD_CANCEL) /\ \E name \in ConvNames : WasLive(name))
        => /\ \E name \in ConvNames : Ended(name)
           /\ CreateCalls = {}

\* C2: when summary parses a price that both the locale parse and the fallback
\* parse reject, the session ends, the user is told the price is invalid and no
\* create call is made.
C2_UnparsablePriceAborts ==
    (SummaryParsedPrice /\ ~last.raised /\ PriceRejected)
        => /\ ~IsLive(last.handler)
           /\ last.calls = <<>>
           /\ last.msgs = <<"description_added", "invalid_price">>

C2_Witness ==
    /\ SummaryParsedPrice /\ ~last.raised /\ PriceRejected
    /\ Get(Draft, "price") = PRICE_SPACE_COMMA
    /\ WasLive(last.handler) /\ ~IsLive(last.handler)
    /\ last.calls = <<>>

\* C3: every payload passed to send_alert_request has all its required fields
\* populated and non-empty (symbol, or symbol1 and symbol2 for a ratio alert,
\* operator, description), and a summary that finds one of them missing ends the
\* session without a create call.
C3_NoPartialDraftSent ==
    /\ \A i \in CreateCalls :
          /\ Truthy(last.calls[i].data.operator)
          /\ Truthy(last.calls[i].data.description)
          /\ IF last.calls[i].data.type = RATIO
             THEN Truthy(last.calls[i].data.symbol1) /\ Truthy(last.calls[i].data.symbol2)
             ELSE Truthy(last.calls[i].data.symbol)
    /\ (SummaryParsedPrice /\ ~last.raised /\ ~Truthy(Get(Draft, "description")))
          => CreateCalls = {} /\ ~IsLive(last.handler)

\* C4: no user has the single-alert conversation and the ratio-alert conversation
\* both in a non-terminal state.
C4_AtMostOneLiveSession ==
    \A u \in Users :
        ~(u \in DOMAIN conversations["conv_handler"]
          /\ u \in DOMAIN conversations["gmt_conv_handler"])

\* C5: an entry command received while the user has a live session replaces it:
\* afterwards only the conversation of the new flow is live, in its entry state,
\* and the draft holds nothing but what the entry of the new flow stores.
C5_EntryPointReplacesSession ==
    /\ (CommandReceived(CMD_CREATEALERT) /\ \E name \in ConvNames : WasLive(name))
          => /\ IsLive("conv_handler") /\ ~IsLive("gmt_conv_handler")
             /\ conversations["conv_handler"][last.user] = AwaitingSymbol
             /\ DOMAIN Draft = {}
    /\ (CommandReceived(CMD_CREATEGMTALERT) /\ \E name \in ConvNames : WasLive(name))
          => /\ IsLive("gmt_conv_handler") /\ ~IsLive("conv_handler")
             /\ conversations["gmt_conv_handler"][last.user] = AwaitingOperator
             /\ DOMAIN Draft = {"symbol", "symbol1", "symbol2", "type"}

\* C6: the operator of every payload passed to send_alert_request is the
\* canonical symbol ('>', '<', '>=', '<=') of the token that was selected in the
\* session that makes the call.
C6_SelectedOperatorSent ==
    \A i \in CreateCalls :
        /\ last.selected[last.handler][last.user] \in OperatorTokens
        /\ last.calls[i].data.operator = Canonical(last.selected[last.handler][last.user])

\* C7: the operator stored in a draft is always a canonical comparison symbol.
C7_StoredOperatorCanonical ==
    \A u \in Users :
        "operator" \in DOMAIN user_data[u] => user_data[u]["operator"] \in CanonicalOperators

\* C8: the single-alert session with symbol BTC, token greater, price "45 000,50"
\* and description "breakout" completes with exactly one create call, whose payload
\* is {single, BTC, 45000.50, '>', breakout}.
C8_DecimalCommaSessionCreatesAlert ==
    ( /\ SummaryParsedPrice /\ ~last.raised
      /\ Get(Draft, "type") = SINGLE
      /\ Get(Draft, "symbol") = BTC
      /\ Get(Draft, "operator") = OperatorMap(GREATER)
      /\ Get(Draft, "price") = PRICE_SPACE_COMMA
      /\ Get(Draft, "description") = BREAKOUT )
        => /\ Len(last.calls) = 1
           /\ last.calls[1].op = "send_alert_request"
           /\ last.calls[1].data =
                  [type |-> SINGLE, symbol |-> BTC, price |-> <<"4", "5", "0", "0", "0", ".", "5">>,
                   operator |-> <<">">>, description |-> BREAKOUT]

\* The messages that tell the user the outcome of an operation
ConfirmationKinds ==
    {"alert_created", "create_failed", "invalid_price", "missing_information", "bye",
     "alert_removed", "remove_failed", "no_alerts_or_error", "current_alerts",
     "no_alerts_to_remove", "select_alert_to_remove"}

Confirmations == {i \in 1..Len(last.msgs) : last.msgs[i] \in ConfirmationKinds}

\* C9: an update that ends a session or makes a gateway request sends exactly one
\* message telling the user the outcome.
C9_OneConfirmationPerOutcome ==
    ((\E name \in ConvNames : Ended(name)) \/ last.calls # <<>>)
        => Cardinality(Confirmations) = 1

\* The service answered the request with status 200
Answered200(resp) == resp.kind = "http" /\ resp.status = 200

\* The body of the answer arrived and was read
BodyRead(resp) == resp.kind = "http" /\ resp.readable

\* After a create call that returned false the callback has not raised, its last
\* message is the generic failure message and the session has ended.
FailureReported(i) ==
    ~last.calls[i].result
        => /\ ~last.raised
           /\ last.msgs[Len(last.msgs)] = "create_failed"
           /\ Cardinality(Confirmations) = 1
           /\ ~IsLive(last.handler)

\* C10: send_alert_request returns true exactly when the remote service answers
\* with status 200; on false (another status, a transport error, a timeout) the
\* callback does not raise, its last message is the generic failure message and
\* the session ends.
C10_TrueOnEveryStatus200 ==
    \A i \in CreateCalls :
        /\ last.calls[i].result = Answered200(last.calls[i].resp)
        /\ FailureReported(i)

\* C10, amended: send_alert_request returns true exactly when the remote service
\* answers with status 200 and the body of the answer is read; on false (another
\* status, a body that cannot be read, a transport error, a timeout) the callback
\* does not raise, its last message is the generic failure message and the
\* session ends.
C10_GatewayFailureIsReported ==
    \A i \in CreateCalls :
        /\ last.calls[i].result
              = (Answered200(last.calls[i].resp) /\ BodyRead(last.calls[i].resp))
        /\ FailureReported(i)

C10_Witness ==
    \E i \in CreateCalls :
        /\ last.calls[i].resp = UnreadableResponse(200)
        /\ ~last.calls[i].result
        /\ last.msgs[Len(last.msgs)] = "create_failed"
        /\ WasLive(last.handler) /\ ~IsLive(last.handler)

----------------------------------------------------------------------------
(* C11..C20 *)

\* The direct calls of a gateway function
CallsOf(op) == {i \in 1..Len(gateway_calls) : gateway_calls[i].op = op}

\* C11: get_all_alerts returns the empty list on every failure (a status other
\* than 200, no answer, a 200 answer whose body cannot be read or is not JSON)
\* and the remote list on a 200 answer with a decodable body.
C11_ListFailuresAreEmpty ==
    \A i \in CallsOf("get_all_alerts") :
        LET c == gateway_calls[i]
        IN  IF Answered200(c.resp) /\ c.resp.decodable
            THEN c.result = c.resp.json
            ELSE c.result = JsonArray(<<>>)

C11_Witness ==
    /\ \E i \in CallsOf("get_all_alerts") :
          /\ gateway_calls[i].resp = HttpResponse(500, TRUE, JsonArray(<<ALERT1>>))
          /\ gateway_calls[i].result = JsonArray(<<>>)
    /\ \E i \in CallsOf("get_all_alerts") :
          /\ gateway_calls[i].resp = HttpResponse(200, FALSE, JsonNull)
          /\ gateway_calls[i].result = JsonArray(<<>>)
    /\ \E i \in CallsOf("get_all_alerts") :
          /\ gateway_calls[i].resp = HttpResponse(200, TRUE, JsonArray(<<ALERT1>>))
          /\ gateway_calls[i].result = JsonArray(<<ALERT1>>)

\* j is the call of delete_alert that follows call i with the same id, and i is
\* the first call with that id
SecondDelete(i, j) ==
    /\ i \in CallsOf("delete_alert") /\ j \in CallsOf("delete_alert") /\ i < j
    /\ gateway_calls[i].data = gateway_calls[j].data
    /\ \A k \in CallsOf("delete_alert") :
          (k # i /\ k # j /\ gateway_calls[k].data = gateway_calls[i].data) => k > j

\* C12: of two calls of delete_alert with the same id, the first of them
\* answered with status 200 (the alert existed and the service deleted it), the
\* first returns true and the second returns false.
C12_SecondDeleteReturnsFalse ==
    \A i, j \in CallsOf("delete_alert") :
        (SecondDelete(i, j) /\ Answered200(gateway_calls[i].resp))
            => gateway_calls[i].result /\ ~gateway_calls[j].result

\* C12, amended: delete_alert returns true exactly when the service answers the
\* request with status 200 and the body of the answer is read, on the first call
\* and on every later call with the same id; any other status, a body that
\* cannot be read and no answer give false.
C12_DeleteResultFollowsAnswer ==
    \A i \in CallsOf("delete_alert") :
        gateway_calls[i].result
            = (Answered200(gateway_calls[i].resp) /\ BodyRead(gateway_calls[i].resp))

C12_Witness ==
    \E i, j \in CallsOf("delete_alert") :
        /\ SecondDelete(i, j)
        /\ gateway_calls[i].resp = HttpResponse(200, TRUE, JsonNull)
        /\ gateway_calls[i].result
        /\ gateway_calls[j].resp = UnreadableResponse(200)
        /\ ~gateway_calls[j].result

\* The last step of the tool was an iteration of the polling loop; its first
\* request is the poll.
LastStepPolled ==
    /\ breaker.pc \in {"poll", "returned"}
    /\ breaker.step # <<>>
    /\ breaker.step[1].method = "getUpdates"

PollStatus(status) ==
    /\ LastStepPolled
    /\ breaker.step[1].resp.kind = "http"
    /\ breaker.step[1].resp.status = status

\* The poll was answered 200 with a body the code could read
PollResolved == PollStatus(200) /\ breaker.step[1].resp.decodable

\* C13: break_bot_conflicts makes at most max_attempts polls; each conflict
\* (409) is followed by the backoff and, budget permitting, another poll; it
\* returns False only with the budget exhausted and the last poll not a
\* success; a poll answered with a non-conflict success (status 200) makes it
\* return True at that attempt.
C13_ResolvesWithinBudget ==
    /\ breaker.attempt <= max_attempts
    /\ breaker.sleeps = breaker.conflicts
    /\ PollStatus(409) =>
          breaker.pc = (IF breaker.attempt < max_attempts THEN "poll" ELSE "returned")
    /\ (breaker.pc = "returned" /\ ~breaker.success) =>
          breaker.attempt = max_attempts /\ ~PollStatus(200)
    /\ PollStatus(200) => breaker.pc = "returned" /\ breaker.success
    /\ (breaker.pc = "returned" /\ breaker.success) => PollStatus(200)

\* C13, amended: as C13, with the resolving poll being one answered 200 with a
\* body the code can read; a 200 answer it cannot read counts as a failed
\* attempt.
C13_ResolvesOnReadablePoll ==
    /\ breaker.attempt <= max_attempts
    /\ breaker.sleeps = breaker.conflicts
    /\ PollStatus(409) =>
          breaker.pc = (IF breaker.attempt < max_attempts THEN "poll" ELSE "returned")
    /\ (breaker.pc = "returned" /\ ~breaker.success) =>
          breaker.attempt = max_attempts /\ ~PollResolved
    /\ PollResolved => breaker.pc = "returned" /\ breaker.success
    /\ (breaker.pc = "returned" /\ breaker.success) => PollResolved
    /\ (LastStepPolled /\ ~PollResolved /\ breaker.attempt < max_attempts) =>
          breaker.pc = "poll"

\* The competing consumer released the channel after two conflicts: the third
\* poll resolved.
C13_Witness ==
    /\ breaker.pc = "returned" /\ breaker.success
    /\ breaker.attempt = 3 /\ breaker.conflicts = 2 /\ breaker.sleeps = 2
    /\ PollResolved

\* C14: the tool exits with status 0 exactly when break_bot_conflicts returned
\* True; with the budget exhausted it exits with a non-zero status.
C14_ExitStatusReportsResolution ==
    breaker.pc = "exited" => (breaker.exit_code = 0 <=> breaker.success)

\* The state of conversation `name` of the user of the last update before and
\* after that update; NotLive when the user has no such conversation.
NotLive == 0 - 2
PreState(name) == IF WasLive(name) THEN last.pre[name][last.user] ELSE NotLive
PostState(name) == IF IsLive(name) THEN conversations[name][last.user] ELSE NotLive

EntryState(name) == IF name = "conv_handler" THEN AwaitingSymbol ELSE AwaitingOperator

\* One step of the sequence AwaitingSymbol -> AwaitingOperator -> AwaitingPrice
\* -> AwaitingDescription -> ended, an entry, or a cancellation
SequenceStep(name) ==
    \/ PreState(name) = NotLive /\ PostState(name) = EntryState(name)
    \/ PreState(name) = AwaitingSymbol /\ PostState(name) = AwaitingOperator
    \/ PreState(name) = AwaitingOperator /\ PostState(name) = AwaitingPrice
    \/ PreState(name) = AwaitingPrice /\ PostState(name) = AwaitingDescription
    \/ PreState(name) = AwaitingDescription /\ PostState(name) = NotLive
    \/ PreState(name) # NotLive /\ PostState(name) = NotLive /\ last.callback = "cancel"

\* C16: an update makes at most one create call, and only as the transition out
\* of AwaitingDescription, which ends the session whether the call succeeded or
\* not (no retry); an update moves at most one conversation, by one step of the
\* sequence AwaitingSymbol, AwaitingOperator, AwaitingPrice, AwaitingDescription,
\* ended.
C16_OneCreateCallAtTheEnd ==
    /\ Cardinality(CreateCalls) <= 1
    /\ CreateCalls # {} =>
          /\ last.callback = "summary"
          /\ PreState(last.handler) = AwaitingDescription
          /\ PostState(last.handler) = NotLive
    /\ \A name \in ConvNames :
          PostState(name) # PreState(name) => (name = last.handler /\ SequenceStep(name))

C16_Witness ==
    /\ \E i \in CreateCalls : ~last.calls[i].result
    /\ last.handler = "conv_handler"
    /\ PreState("conv_handler") = AwaitingDescription
    /\ PostState("conv_handler") = NotLive
    /\ Get(Draft, "symbol") = BTC /\ Get(Draft, "price") = PRICE_COMMA

\* C17: a create call made by the session of the ratio flow carries a payload of
\* kind ratio with the symbols GMT and GST, a create call made by the session
\* of the single-alert flow a payload of kind single; the ratio flow starts in
\* AwaitingOperator.
C17_FlowDecidesPayloadKind ==
    /\ \A i \in CreateCalls :
          IF last.handler = "gmt_conv_handler"
          THEN /\ last.calls[i].data.type = RATIO
               /\ last.calls[i].data.symbol1 = GMT
               /\ last.calls[i].data.symbol2 = GST
          ELSE last.calls[i].data.type = SINGLE
    /\ (last.callback = "createGmtAlert" /\ last.handler = "gmt_conv_handler" /\ ~last.raised)
          => PostState("gmt_conv_handler") = AwaitingOperator

\* The kinds of event of C18
IsClick(seen) == seen.kind = "callback_query"
IsFreeText(seen) == seen.kind = "message" /\ seen.has_text /\ seen.command = <<>>
IsNonText(seen) == seen.kind = "message" /\ ~seen.has_text
IsOtherCommand(seen) ==
    seen.kind = "message" /\ seen.command # <<>> /\ seen.command # CMD_CANCEL

\* The event is not of the type the state awaits
NonMatching(state, seen) ==
    IF state = AwaitingOperator
    THEN IsFreeText(seen) \/ IsNonText(seen)
    ELSE IsClick(seen) \/ IsNonText(seen) \/ IsOtherCommand(seen)

\* C18: an update whose type does not match what a live session of its user
\* awaits leaves the state of that session and the draft of the user unchanged
\* and makes no create call.
C18_NonMatchingEventIgnored ==
    [][\A name \in ConvNames, u \in Users :
          ( /\ updates' = updates + 1
            /\ last'.user = u
            /\ u \in DOMAIN conversations[name]
            /\ NonMatching(conversations[name][u], last'.update) )
          => /\ u \in DOMAIN conversations'[name]
             /\ conversations'[name][u] = conversations[name][u]
             /\ user_data'[u] = user_data[u]
             /\ \A i \in 1..Len(last'.calls) : last'.calls[i].op # "send_alert_request"]_vars

\* The fields a session collects
DraftFields == {"symbol", "symbol1", "symbol2", "type", "operator", "price", "description"}

\* C19: when a session has ended none of the fields it collected remains in the
\* draft of its user.
C19_DraftDestroyedAtEnd ==
    (\E name \in ConvNames : Ended(name)) => DOMAIN Draft \cap DraftFields = {}

\* C20: a poll is made only after deleteWebhook was answered with success.
C20_PollsOnlyAfterWebhookCleared ==
    breaker.attempt > 0 => breaker.webhook_ok

----------------------------------------------------------------------------
(* C21..C22 *)

\* The update ids of the poll of the last step, when it was resolved
PolledIds ==
    LET us == ResultOf(breaker.step[1].resp.json)
    IN  {us[i].update_id : i \in 1..Len(us)}

\* C21: a poll answered 200 with one or more updates is followed, in the same
\* iteration and before the function returns, by exactly one acknowledging
\* getUpdates whose offset is the highest received update_id plus one; a poll
\* answered 200 with no update is followed by no request.
C21_AckPastHighestUpdate ==
    PollResolved =>
        IF PolledIds # {}
        THEN /\ Len(breaker.step) = 2
             /\ breaker.step[2].method = "getUpdates"
             /\ breaker.step[2].params.offset - 1 \in PolledIds
             /\ \A id \in PolledIds : id < breaker.step[2].params.offset
             /\ breaker.pc = "returned"
        ELSE Len(breaker.step) = 1

C21_Witness ==
    /\ PollResolved
    /\ ResultOf(breaker.step[1].resp.json) = <<TgUpdate(7), TgUpdate(5)>>
    /\ Len(breaker.step) = 2
    /\ breaker.step[2].params.offset = 8

\* C22: for a session in AwaitingOperator, an update advances it to
\* AwaitingPrice, or changes the stored operator, only if it is a button press
\* carrying one of the four tokens, and then the operator of that token is
\* stored; a button press with any other data leaves the session in
\* AwaitingOperator and the draft unchanged and makes no gateway call.
C22_OnlyTokenPressStoresOperator ==
    [][\A name \in ConvNames, u \in Users :
          ( /\ updates' = updates + 1
            /\ last'.user = u
            /\ u \in DOMAIN conversations[name]
            /\ conversations[name][u] = AwaitingOperator )
          => /\ ( \/ /\ u \in DOMAIN conversations'[name]
                     /\ conversations'[name][u] = AwaitingPrice
                  \/ Get(user_data'[u], "operator") # Get(user_data[u], "operator") )
                => /\ IsClick(last'.update)
                   /\ last'.update.data \in OperatorTokens
                   /\ Get(user_data'[u], "operator") = OperatorMap(last'.update.data)
             /\ (IsClick(last'.update) /\ last'.update.data \notin OperatorTokens)
                => /\ u \in DOMAIN conversations'[name]
                   /\ conversations'[name][u] = AwaitingOperator
                   /\ user_data'[u] = user_data[u]
                   /\ last'.calls = <<>>]_vars

C22_Witness ==
    /\ IsClick(last.update)
    /\ last.update.data = DELETE_PREFIX \o GUID1
    /\ last.callback = "crypto_operator"
    /\ PreState(last.handler) = AwaitingOperator
    /\ PostState(last.handler) = AwaitingOperator
    /\ "operator" \notin DOMAIN Draft
    /\ last.calls = <<>>

====
